---- MODULE Spec2Model ----
(***************************************************************************)
(* Model of forecast_service.py: the filename date resolver                *)
(* (extract_date_from_filename), the record aggregation loop of            *)
(* run_forecast_pipeline, and the series extraction, lag feature           *)
(* construction and recursive prediction loop of forecast_kpi.             *)
(*                                                                         *)
(* Strings that the code inspects character by character (file names,      *)
(* date strings) are sequences of one-character strings.  Numbers held in  *)
(* data frames are rationals [num, den]; NaN is the value with den = 0.    *)
(* Python's None is the record None.                                       *)
(***************************************************************************)
EXTENDS Integers, Sequences, FiniteSets, TLC

VARIABLES
    pc,            \* position of the running call
    zip_buffer,    \* input: the archive ([valid, entries])
    request,       \* input: [dims |-> <<country, tech, zone, kpi>>, forecast_months]
    excel_files,   \* run_forecast_pipeline: discovered spreadsheet files
    idx,           \* run_forecast_pipeline: position of the per-file loop
    records,       \* run_forecast_pipeline: one tagged frame per surviving file
    df_all,        \* run_forecast_pipeline: the concatenated frame
    ts,            \* forecast_kpi: the frame ts ([ds, y, month, year, lags])
    model,         \* forecast_kpi: the fitted regressor (its training set)
    prev_lags,     \* forecast_kpi: the lag triple carried across iterations
    future_dates,  \* forecast_kpi: dates still to be predicted
    calls,         \* forecast_kpi: the feature dicts passed to model.predict
    forecasts,     \* forecast_kpi: the list of {ds, yhat}
    fk_result,     \* what forecast_kpi returned: <<fig, summary, err>>
    result,        \* what run_forecast_pipeline returned
    filename,      \* extract_date_from_filename: its argument
    date_str       \* extract_date_from_filename: its return value

vars == <<pc, zip_buffer, request, excel_files, idx, records, df_all, ts, model,
          prev_lags, future_dates, calls, forecasts, fk_result, result,
          filename, date_str>>

pipelineVars == <<zip_buffer, request, excel_files, idx, records, df_all, ts, model,
                  prev_lags, future_dates, calls, forecasts, fk_result, result>>

-----------------------------------------------------------------------------
(* Bounds *)

MaxHorizon == 3     \* largest forecast_months requested
MaxChunks == 3      \* longest file stem, in chunks, given to the resolver

-----------------------------------------------------------------------------
(* Python values *)

None == [tag |-> "None"]

Str(s) == [tag |-> "str", text |-> s]

NaN == [num |-> 0, den |-> 0]

IsNaN(v) == v.den = 0

Num(n) == [num |-> n, den |-> 1]

RECURSIVE Gcd(_, _)
Gcd(a, b) == IF b = 0 THEN a ELSE Gcd(b, a % b)

-----------------------------------------------------------------------------
(* Characters *)

UpperChars == <<"A","B","C","D","E","F","G","H","I","J","K","L","M",
                "N","O","P","Q","R","S","T","U","V","W","X","Y","Z">>

LowerChars == <<"a","b","c","d","e","f","g","h","i","j","k","l","m",
                "n","o","p","q","r","s","t","u","v","w","x","y","z">>

DigitChars == <<"0","1","2","3","4","5","6","7","8","9">>

Range(s) == {s[i] : i \in DOMAIN s}

Uppers == Range(UpperChars)

Lowers == Range(LowerChars)

Digits == Range(DigitChars)

IsLetter(c) == c \in Uppers \cup Lowers

IsDigit(c) == c \in Digits

DigitVal(c) == (CHOOSE i \in DOMAIN DigitChars : DigitChars[i] = c) - 1

ToLower(c) ==
    IF c \in Uppers
    THEN LowerChars[CHOOSE i \in DOMAIN UpperChars : UpperChars[i] = c]
    ELSE c

ToUpper(c) ==
    IF c \in Lowers
    THEN UpperChars[CHOOSE i \in DOMAIN LowerChars : LowerChars[i] = c]
    ELSE c

\* str.lower()
Lower(s) == [i \in DOMAIN s |-> ToLower(s[i])]

\* str.capitalize(): first character upper-cased, the rest lower-cased
Capitalize(s) == [i \in DOMAIN s |-> IF i = 1 THEN ToUpper(s[i]) ELSE ToLower(s[i])]

\* str.endswith(suffix)
EndsWith(s, suffix) ==
    /\ Len(s) >= Len(suffix)
    /\ SubSeq(s, Len(s) - Len(suffix) + 1, Len(s)) = suffix

\* f"{i:02d}" for 1 <= i <= 12
TwoDigits(i) == <<DigitChars[(i \div 10) + 1], DigitChars[(i % 10) + 1]>>

-----------------------------------------------------------------------------
(* extract_date_from_filename *)

\* calendar.month_abbr[1..12] (C locale)
month_abbr == << <<"J","a","n">>, <<"F","e","b">>, <<"M","a","r">>, <<"A","p","r">>,
                 <<"M","a","y">>, <<"J","u","n">>, <<"J","u","l">>, <<"A","u","g">>,
                 <<"S","e","p">>, <<"O","c","t">>, <<"N","o","v">>, <<"D","e","c">> >>

month_map == [abbr \in Range(month_abbr) |->
                 TwoDigits(CHOOSE i \in DOMAIN month_abbr : month_abbr[i] = abbr)]

\* os.path.basename (posix): what follows the last "/"
Basename(p) ==
    LET slashes == {i \in DOMAIN p : p[i] = "/"}
    IN  IF slashes = {} THEN p
        ELSE SubSeq(p, (CHOOSE i \in slashes : \A j \in slashes : j <= i) + 1, Len(p))

\* os.path.splitext(name)[0]: cut at the last "." unless only dots precede it
SplitExtBase(name) ==
    LET dots == {i \in DOMAIN name : name[i] = "."}
        last == CHOOSE i \in dots : \A j \in dots : j <= i
    IN  IF dots # {} /\ \E k \in 1..(last - 1) : name[k] # "."
        THEN SubSeq(name, 1, last - 1)
        ELSE name

\* positions where r'([A-Za-z]{3})(\d{4})' matches
RegexMatchesAt(base, i) ==
    /\ i + 6 <= Len(base)
    /\ \A k \in i..(i + 2) : IsLetter(base[k])
    /\ \A k \in (i + 3)..(i + 6) : IsDigit(base[k])

\* Series.str.extract: the groups of the leftmost match, or <<>> (NaN) if none
RegexExtract(base) ==
    LET hits == {i \in DOMAIN base : RegexMatchesAt(base, i)}
        first == CHOOSE i \in hits : \A j \in hits : i <= j
    IN  IF hits = {} THEN <<>>
        ELSE <<SubSeq(base, first, first + 2), SubSeq(base, first + 3, first + 6)>>

\* The returned string, or <<>> for None
extract_date_from_filename(fname) ==
    LET base == SplitExtBase(Basename(fname))
        match == RegexExtract(base)
    IN  IF match = <<>> THEN <<>>
        ELSE LET mon == Capitalize(match[1])
                 year == match[2]
             IN  IF mon \in DOMAIN month_map
                 THEN year \o <<"-">> \o month_map[mon] \o <<"-", "0", "1">>
                 ELSE <<>>

-----------------------------------------------------------------------------
(* Dates: pandas Timestamps at a month start, [year, month] *)

\* the number a run of decimal digits spells
RECURSIVE DigitsVal(_)
DigitsVal(s) ==
    IF s = <<>> THEN 0
    ELSE 10 * DigitsVal(SubSeq(s, 1, Len(s) - 1)) + DigitVal(s[Len(s)])

\* Timestamp.min / Timestamp.max of the nanosecond resolution: month starts
\* from 1677-10-01 to 2262-04-01 are representable
InBounds(d) ==
    /\ d.year > 1677 \/ (d.year = 1677 /\ d.month >= 10)
    /\ d.year < 2262 \/ (d.year = 2262 /\ d.month <= 4)

\* pd.to_datetime("YYYY-MM-01"); None stands for OutOfBoundsDatetime being raised
to_datetime(s) ==
    LET d == [year |-> DigitsVal(SubSeq(s, 1, 4)), month |-> DigitsVal(SubSeq(s, 6, 7))]
    IN  IF InBounds(d) THEN d ELSE None

DateLess(a, b) == a.year < b.year \/ (a.year = b.year /\ a.month < b.month)

\* ts + pd.offsets.MonthBegin() for a ts that is itself a month start
MonthBegin(d) ==
    IF d.month = 12 THEN [year |-> d.year + 1, month |-> 1]
    ELSE [year |-> d.year, month |-> d.month + 1]

\* pd.date_range(start, periods = n, freq = 'MS') for n >= 0
RECURSIVE date_range(_, _)
date_range(start, n) ==
    IF n = 0 THEN <<>> ELSE <<start>> \o date_range(MonthBegin(start), n - 1)

\* "YYYY-MM-DD" as Timestamp.date() and the JSON encoder spell a month start
\* (the encoder's time-of-day suffix is left out)
IsoDate(d) ==
    << DigitChars[((d.year \div 1000) % 10) + 1], DigitChars[((d.year \div 100) % 10) + 1],
       DigitChars[((d.year \div 10) % 10) + 1], DigitChars[(d.year % 10) + 1], "-" >>
    \o TwoDigits(d.month) \o <<"-", "0", "1">>

\* ascending order of a set of dates (sort_values / groupby key order)
RECURSIVE SortDates(_)
SortDates(S) ==
    IF S = {} THEN <<>>
    ELSE LET m == CHOOSE d \in S : \A e \in S : ~DateLess(e, d)
         IN  <<m>> \o SortDates(S \ {m})

-----------------------------------------------------------------------------
(* The inputs *)

value_col == <<"Actual Value MAPS Networks">>

\* Index.str.strip() on one header, a sequence of tokens of which " " is blank
RECURSIVE Strip(_)
Strip(h) ==
    IF h = <<>> THEN h
    ELSE IF Head(h) = " " THEN Strip(Tail(h))
    ELSE IF h[Len(h)] = " " THEN Strip(SubSeq(h, 1, Len(h) - 1))
    ELSE h

T1 == <<"France", "4G", "ZoneA", "Availability">>
T2 == <<"France", "4G", "ZoneB", "Availability">>
T3 == <<"France", "4G", "ZoneA", "Drop Rate">>

Row(d, v) == [dims |-> d, val |-> v]

Entry(p, ok, h, r) == [path |-> p, decodes |-> ok, header |-> h, rows |-> r]

xlsx == <<".", "x", "l", "s", "x">>
y2024 == <<"2", "0", "2", "4">>

\* The files an archive is made of: a path, whether the spreadsheet decodes,
\* the header of its measurement column and its rows
Catalog == <<
    Entry(<<"J","a","n">> \o y2024 \o xlsx, TRUE, value_col, <<Row(T1, Num(2))>>),
    Entry(<<"d","/","f","e","b">> \o y2024 \o <<".","x","l","s">>, TRUE,
          <<" ">> \o value_col \o <<" ">>, <<Row(T1, Num(4)), Row(T1, Num(8))>>),
    Entry(<<"M","A","R">> \o y2024 \o <<".","X","L","S","X">>, TRUE, value_col,
          <<Row(T1, Num(3)), Row(T2, Num(9))>>),
    Entry(<<"A","p","r">> \o y2024 \o xlsx, TRUE, value_col, <<Row(T1, Num(10))>>),
    Entry(<<"k","_","N","o","v">> \o y2024 \o xlsx, TRUE, value_col, <<Row(T1, Num(5))>>),
    Entry(<<"D","e","c">> \o y2024 \o xlsx, TRUE, <<"Value">>, <<Row(T1, Num(7))>>),
    Entry(<<"J","u","n">> \o y2024 \o xlsx, TRUE, value_col, <<Row(T2, Num(9))>>),
    Entry(<<"a","b","c","1","2","3","4","_","J","a","n","2","0","2","5">> \o xlsx, TRUE,
          value_col, <<Row(T1, Num(1))>>),
    Entry(<<"M","a","y">> \o y2024 \o xlsx, FALSE, value_col, <<Row(T1, Num(11))>>),
    Entry(<<"J","a","n","9","9","9","9">> \o xlsx, TRUE, value_col, <<Row(T1, Num(12))>>),
    Entry(<<"r","e","a","d","m","e",".","t","x","t">>, FALSE, <<>>, <<>>)
>>

\* the entries of Catalog at the positions of S, in catalog order
RECURSIVE Pick(_, _)
Pick(S, i) ==
    IF i > Len(Catalog) THEN <<>>
    ELSE (IF i \in S THEN <<Catalog[i]>> ELSE <<>>) \o Pick(S, i + 1)

Reverse(s) == [i \in DOMAIN s |-> s[Len(s) + 1 - i]]

\* archives: an unreadable buffer, or any selection of catalog files in either order
Archives ==
    {[valid |-> FALSE, entries |-> <<>>]}
    \cup {[valid |-> TRUE, entries |-> Pick(S, 1)] : S \in SUBSET DOMAIN Catalog}
    \cup {[valid |-> TRUE, entries |-> Reverse(Pick(S, 1))] : S \in SUBSET DOMAIN Catalog}

Requests == {[dims |-> d, forecast_months |-> n] : d \in {T1, T3}, n \in (-1)..MaxHorizon}

\* what model.predict may return
Preds == {Num(50), Num(60)}

-----------------------------------------------------------------------------
(* Data frames: [columns |-> set of column names, rows |-> sequence of rows]. *)
(* A row keeps its four dimension cells (dims), its cell under value_col     *)
(* (val, NaN where the file has no such column) and the two tag columns.     *)

DimColumns == {<<"Country">>, <<"Technology">>, <<"Zone">>, <<"KPI">>}

\* lines 122-128: the frame of one decoded file, its header stripped, every row
\* tagged with the resolved date and the base name
TagFrame(e, date) ==
    LET col == Strip(e.header)
    IN  [columns |-> DimColumns \cup {col, <<"Date">>, <<"source_file">>},
         rows |-> [i \in DOMAIN e.rows |->
                      [dims |-> e.rows[i].dims,
                       val |-> IF col = value_col THEN e.rows[i].val ELSE NaN,
                       Date |-> date,
                       source_file |-> Basename(e.path)]]]

RECURSIVE ConcatRows(_)
ConcatRows(frames) ==
    IF frames = <<>> THEN <<>> ELSE Head(frames).rows \o ConcatRows(Tail(frames))

\* pd.concat(records, ignore_index = True): union of the columns, rows in order
Concat(frames) ==
    [columns |-> UNION {frames[i].columns : i \in DOMAIN frames},
     rows |-> ConcatRows(frames)]

\* lines 30-35: the boolean mask over the four dimension columns
Filter(df, country, tech, zone, kpi) ==
    LET Keep(r) == /\ r.dims[1] = country
                   /\ r.dims[2] = tech
                   /\ r.dims[3] = zone
                   /\ r.dims[4] = kpi
    IN  SelectSeq(df.rows, Keep)

RECURSIVE SumNums(_)
SumNums(vs) == IF vs = <<>> THEN 0 ELSE Head(vs).num + SumNums(Tail(vs))

\* Series.mean() of cells that are whole numbers or NaN: NaN cells are skipped,
\* the mean of none is NaN
Mean(vs) ==
    LET Present(v) == ~IsNaN(v)
        xs == SelectSeq(vs, Present)
        g == Gcd(SumNums(xs), Len(xs))
    IN  IF xs = <<>> THEN NaN
        ELSE [num |-> SumNums(xs) \div g, den |-> Len(xs) \div g]

\* lines 43-49: groupby('Date')[value_col].mean().reset_index(), renamed to
\* ds / y and sorted by ds
GroupMean(rows) ==
    LET dates == SortDates({rows[i].Date : i \in DOMAIN rows})
        Cells(d) == LET On(r) == r.Date = d
                        sel == SelectSeq(rows, On)
                    IN  [i \in DOMAIN sel |-> sel[i].val]
    IN  [i \in DOMAIN dates |-> [ds |-> dates[i], y |-> Mean(Cells(dates[i]))]]

\* lines 23-26
create_features(frame) ==
    [i \in DOMAIN frame |->
        [ds |-> frame[i].ds, y |-> frame[i].y,
         month |-> frame[i].ds.month, year |-> frame[i].ds.year]]

\* the shift taken one row short
ShiftOffByOne(frame, lag, i) == IF i - lag >= 0 THEN frame[i - lag + 1].y ELSE NaN

\* Series.shift(lag) at row i
Shift(frame, lag, i) == IF i - lag >= 1 THEN frame[i - lag].y ELSE NaN

\* lines 52-53
AddLags(frame) ==
    [i \in DOMAIN frame |->
        [ds |-> frame[i].ds, y |-> frame[i].y,
         month |-> frame[i].month, year |-> frame[i].year,
         y_lag_1 |-> Shift(frame, 1, i),
         y_lag_2 |-> Shift(frame, 2, i),
         y_lag_3 |-> Shift(frame, 3, i)]]

\* the frame with dropna left out
DropNaOmitted(frame) == frame

\* line 54: rows holding a NaN in any column are dropped
DropNa(frame) ==
    LET Full(r) == ~IsNaN(r.y) /\ ~IsNaN(r.y_lag_1) /\ ~IsNaN(r.y_lag_2) /\ ~IsNaN(r.y_lag_3)
    IN  SelectSeq(frame, Full)

\* line 67: the lag triple the prediction loop starts from
SeedLags(last_row) == <<last_row.y_lag_1, last_row.y_lag_2, last_row.y_lag_3>>

\* the shift that discards lag1 instead of lag3
ShiftLagsDropFirst(pred, lags) == <<pred>> \o SubSeq(lags, 2, 3)

\* line 78
ShiftLags(pred, lags) == <<pred>> \o SubSeq(lags, 1, 2)

\* ts['ds'].max()
MaxDs(frame) ==
    LET S == {frame[i].ds : i \in DOMAIN frame}
    IN  CHOOSE d \in S : \A e \in S : ~DateLess(d, e)

\* lines 63-64
FutureDates(frame, n) == date_range(MonthBegin(MaxDs(frame)), n)

\* f"{yhat:.2f}" as a count of hundredths
Round2(v) == (200 * v.num + v.den) \div (2 * v.den)

\* lines 82-89: the figure, with its two traces
Figure(frame, fc, dims) ==
    [tag |-> "Figure",
     Actual |-> [i \in DOMAIN frame |-> [x |-> frame[i].ds, y |-> frame[i].y]],
     Forecast |-> [i \in DOMAIN fc |-> [x |-> fc[i].ds, y |-> fc[i].yhat]],
     title |-> <<dims[4], dims[3], dims[2], dims[1]>>,
     yaxis_title |-> dims[4]]

\* lines 91-93
Summary(fc) ==
    [tag |-> "str",
     lines |-> [i \in DOMAIN fc |-> <<IsoDate(fc[i].ds), Round2(fc[i].yhat)>>]]

\* lines 141-142: fig.to_json() read back with json.loads; dates become strings
ToJson(fig) ==
    [tag |-> "dict",
     data |-> << [name |-> "Actual",
                  points |-> [i \in DOMAIN fig.Actual |->
                                 [x |-> IsoDate(fig.Actual[i].x), y |-> fig.Actual[i].y]]],
                 [name |-> "Forecast",
                  points |-> [i \in DOMAIN fig.Forecast |->
                                 [x |-> IsoDate(fig.Forecast[i].x), y |-> fig.Forecast[i].y]]] >>,
     title |-> fig.title,
     yaxis_title |-> fig.yaxis_title]

\* a non-empty string is truthy, None is not
Truthy(v) == v # None

NoDataMsg == Str("No data available for the selected inputs")
MissingColumnMsg == Str("Expected column 'Actual Value MAPS Networks' not found")
NoExcelMsg == Str("No Excel files found in ZIP archive")
NoValidMsg == Str("No valid data found in Excel files")

\* lines 97-98: what forecast_kpi returns for an exception raised in its body
ForecastExcept(e) == <<None, None, [tag |-> "str", text |-> "Forecast failed: ", exc |-> e]>>

\* the handler with the message in the summary slot
PipelineExceptMisplaced(e) == <<None, [tag |-> "str", text |-> "Pipeline error: ", exc |-> e], None>>

\* lines 145-146: what run_forecast_pipeline returns for an exception raised in its body
PipelineExcept(e) == <<None, None, [tag |-> "str", text |-> "Pipeline error: ", exc |-> e]>>

\* line 113
IsExcel(fn) ==
    \/ EndsWith(Lower(fn), <<".", "x", "l", "s", "x">>)
    \/ EndsWith(Lower(fn), <<".", "x", "l", "s">>)

-----------------------------------------------------------------------------
(* run_forecast_pipeline and forecast_kpi, step by step *)

Idle ==
    /\ excel_files = <<>>
    /\ idx = 1
    /\ records = <<>>
    /\ df_all = None
    /\ ts = <<>>
    /\ model = None
    /\ prev_lags = <<>>
    /\ future_dates = <<>>
    /\ calls = <<>>
    /\ forecasts = <<>>
    /\ fk_result = <<>>
    /\ result = <<>>

Init ==
    /\ pc = "start"
    /\ zip_buffer \in Archives
    /\ request \in Requests
    /\ Idle
    /\ filename = <<>>
    /\ date_str = <<>>

\* lines 102-108: the buffer is written out and extracted; a buffer that is no
\* archive raises BadZipFile inside the outer try
OpenArchive ==
    /\ pc = "start"
    /\ IF zip_buffer.valid
       THEN /\ pc' = "walk"
            /\ result' = result
       ELSE /\ pc' = "done"
            /\ result' = PipelineExcept("BadZipFile")
    /\ UNCHANGED <<zip_buffer, request, excel_files, idx, records, df_all, ts, model,
                   prev_lags, future_dates, calls, forecasts, fk_result,
                   filename, date_str>>

\* lines 110-117
DiscoverFiles ==
    /\ pc = "walk"
    /\ LET IsSheet(e) == IsExcel(Basename(e.path))
           found == SelectSeq(zip_buffer.entries, IsSheet)
       IN  /\ excel_files' = found
           /\ IF found = <<>>
              THEN /\ pc' = "done"
                   /\ result' = <<None, None, NoExcelMsg>>
              ELSE /\ pc' = "loop"
                   /\ result' = result
    /\ UNCHANGED <<zip_buffer, request, idx, records, df_all, ts, model,
                   prev_lags, future_dates, calls, forecasts, fk_result,
                   filename, date_str>>

\* the body without the test of date_str: a dateless file is tagged with NaT
LoopBodyNoDateTest(recs, e) ==
    IF ~e.decodes THEN recs
    ELSE LET d == extract_date_from_filename(e.path)
         IN  IF d = <<>> THEN Append(recs, TagFrame(e, None))
             ELSE IF to_datetime(d) = None THEN recs
             ELSE Append(recs, TagFrame(e, to_datetime(d)))

\* lines 121-130, one iteration: records after the file e.  read_excel raising,
\* a file name without a date and to_datetime raising all leave records as it is
LoopBody(recs, e) ==
    IF ~e.decodes THEN recs
    ELSE LET d == extract_date_from_filename(e.path)
         IN  IF d = <<>> THEN recs
             ELSE IF to_datetime(d) = None THEN recs
             ELSE Append(recs, TagFrame(e, to_datetime(d)))

\* line 120: the loop goes on to the next file whatever the body did
ProcessFile ==
    /\ pc = "loop"
    /\ idx <= Len(excel_files)
    /\ records' = LoopBody(records, excel_files[idx])
    /\ idx' = idx + 1
    /\ UNCHANGED <<pc, zip_buffer, request, excel_files, df_all, ts, model,
                   prev_lags, future_dates, calls, forecasts, fk_result, result,
                   filename, date_str>>

\* lines 132-137, up to the call of forecast_kpi
LoopDone ==
    /\ pc = "loop"
    /\ idx > Len(excel_files)
    /\ IF records = <<>>
       THEN /\ pc' = "done"
            /\ result' = <<None, None, NoValidMsg>>
            /\ df_all' = df_all
       ELSE /\ pc' = "fk_prepare"
            /\ result' = result
            /\ df_all' = Concat(records)
    /\ UNCHANGED <<zip_buffer, request, excel_files, idx, records, ts, model,
                   prev_lags, future_dates, calls, forecasts, fk_result,
                   filename, date_str>>

\* lines 30-57: filter, the two early returns, then the series, the calendar
\* features, the lags and dropna
FkPrepare ==
    /\ pc = "fk_prepare"
    /\ LET filtered == Filter(df_all, request.dims[1], request.dims[2],
                              request.dims[3], request.dims[4])
       IN  IF filtered = <<>>
           THEN /\ fk_result' = <<None, None, NoDataMsg>>
                /\ pc' = "fk_return"
                /\ ts' = ts
           ELSE IF value_col \notin df_all.columns
           THEN /\ fk_result' = <<None, None, MissingColumnMsg>>
                /\ pc' = "fk_return"
                /\ ts' = ts
           ELSE /\ ts' = DropNa(AddLags(create_features(GroupMean(filtered))))
                /\ pc' = "fk_fit"
                /\ fk_result' = fk_result
    /\ UNCHANGED <<zip_buffer, request, excel_files, idx, records, df_all, model,
                   prev_lags, future_dates, calls, forecasts, result,
                   filename, date_str>>

\* lines 59-67: model.fit may raise (on an empty training set the library may
\* raise or return); ts.iloc[-1] raises IndexError on an empty frame and
\* date_range raises ValueError on a negative number of periods
FkFit ==
    /\ pc = "fk_fit"
    /\ \E fitted \in BOOLEAN :
          IF ~fitted
          THEN /\ fk_result' = ForecastExcept("XGBoostError")
               /\ pc' = "fk_return"
               /\ UNCHANGED <<model, prev_lags, future_dates>>
          ELSE IF ts = <<>>
          THEN /\ fk_result' = ForecastExcept("IndexError")
               /\ pc' = "fk_return"
               /\ model' = [tag |-> "XGBRegressor", rows |-> Len(ts)]
               /\ UNCHANGED <<prev_lags, future_dates>>
          ELSE IF request.forecast_months < 0
          THEN /\ fk_result' = ForecastExcept("ValueError")
               /\ pc' = "fk_return"
               /\ model' = [tag |-> "XGBRegressor", rows |-> Len(ts)]
               /\ UNCHANGED <<prev_lags, future_dates>>
          ELSE /\ model' = [tag |-> "XGBRegressor", rows |-> Len(ts)]
               /\ prev_lags' = SeedLags(ts[Len(ts)])
               /\ future_dates' = FutureDates(ts, request.forecast_months)
               /\ pc' = "fk_loop"
               /\ fk_result' = fk_result
    /\ UNCHANGED <<zip_buffer, request, excel_files, idx, records, df_all, ts,
                   calls, forecasts, result, filename, date_str>>

\* lines 68-78, one iteration: model.predict returns some value or raises
FkPredict ==
    /\ pc = "fk_loop"
    /\ future_dates # <<>>
    /\ LET date == Head(future_dates)
           features == [month |-> date.month, year |-> date.year,
                        y_lag_1 |-> prev_lags[1], y_lag_2 |-> prev_lags[2],
                        y_lag_3 |-> prev_lags[3]]
       IN  \/ /\ fk_result' = ForecastExcept("XGBoostError")
              /\ pc' = "fk_return"
              /\ calls' = Append(calls, features)
              /\ UNCHANGED <<forecasts, prev_lags, future_dates>>
           \/ \E pred \in Preds :
                 /\ calls' = Append(calls, features)
                 /\ forecasts' = Append(forecasts, [ds |-> date, yhat |-> pred])
                 /\ prev_lags' = ShiftLags(pred, prev_lags)
                 /\ future_dates' = Tail(future_dates)
                 /\ UNCHANGED <<pc, fk_result>>
    /\ UNCHANGED <<zip_buffer, request, excel_files, idx, records, df_all, ts, model,
                   result, filename, date_str>>

\* lines 80-95: with no forecast row forecast_df has no 'ds' column (KeyError)
FkPackage ==
    /\ pc = "fk_loop"
    /\ future_dates = <<>>
    /\ fk_result' = IF forecasts = <<>>
                    THEN ForecastExcept("KeyError")
                    ELSE <<Figure(ts, forecasts, request.dims), Summary(forecasts), None>>
    /\ pc' = "fk_return"
    /\ UNCHANGED <<zip_buffer, request, excel_files, idx, records, df_all, ts, model,
                   prev_lags, future_dates, calls, forecasts, result,
                   filename, date_str>>

\* lines 137-143: the error is passed on, or the figure is serialised, which
\* may raise inside the outer try
PipeReturn ==
    /\ pc = "fk_return"
    /\ IF Truthy(fk_result[3])
       THEN result' = <<None, None, fk_result[3]>>
       ELSE \/ result' = <<ToJson(fk_result[1]), fk_result[2], None>>
            \/ result' = PipelineExcept("TypeError")
    /\ pc' = "done"
    /\ UNCHANGED <<zip_buffer, request, excel_files, idx, records, df_all, ts, model,
                   prev_lags, future_dates, calls, forecasts, fk_result,
                   filename, date_str>>

Next ==
    \/ OpenArchive
    \/ DiscoverFiles
    \/ ProcessFile
    \/ LoopDone
    \/ FkPrepare
    \/ FkFit
    \/ FkPredict
    \/ FkPackage
    \/ PipeReturn

Spec == Init /\ [][Next]_vars

-----------------------------------------------------------------------------
(* extract_date_from_filename called on its own *)

Chunks == { <<"J","a","n">>, <<"d","E","C">>, <<"a","b","c","1","2","3","4">>,
            <<"2","0","2","4">>, <<"1","9","9">>, <<"_">>, <<"e">>, <<".">>, <<"/">> }

RECURSIVE Names(_)
Names(n) ==
    IF n = 0 THEN {<<>>}
    ELSE Names(n - 1) \cup {s \o c : s \in Names(n - 1), c \in Chunks}

FileNames == {s \o xlsx : s \in Names(MaxChunks)}

InitResolver ==
    /\ pc = "call"
    /\ filename \in FileNames
    /\ date_str = <<>>
    /\ zip_buffer = [valid |-> FALSE, entries |-> <<>>]
    /\ request = [dims |-> T1, forecast_months |-> 1]
    /\ Idle

\* lines 12-21
Resolve ==
    /\ pc = "call"
    /\ date_str' = extract_date_from_filename(filename)
    /\ pc' = "returned"
    /\ UNCHANGED <<filename, pipelineVars>>

NextResolver == Resolve

SpecResolver == InitResolver /\ [][NextResolver]_vars

-----------------------------------------------------------------------------
(* Notions the properties are stated in *)

\* the rows of the unified dataset that match the requested dimension tuple
Matching == Filter(df_all, request.dims[1], request.dims[2], request.dims[3], request.dims[4])

\* the historical series: one mean per distinct matching date, ascending
Series == GroupMean(Matching)

\* the series values, none of them missing
AllPresent(S) == \A i \in DOMAIN S : ~IsNaN(S[i].y)

\* entry i of the series has a value and three present values before it
Complete(S, i) == i >= 4 /\ \A k \in 0..3 : ~IsNaN(S[i - k].y)

\* e is the first day of the month after that of d
MonthAfter(d, e) ==
    \/ d.month < 12 /\ e.year = d.year /\ e.month = d.month + 1
    \/ d.month = 12 /\ e.year = d.year + 1 /\ e.month = 1

\* a file of the per-file loop survives: it decodes and its name gives a date
\* that to_datetime accepts
Survives(e) ==
    /\ e.decodes
    /\ extract_date_from_filename(e.path) # <<>>
    /\ to_datetime(extract_date_from_filename(e.path)) # None

RECURSIVE SurvivorRows(_)
SurvivorRows(files) ==
    IF files = <<>> THEN <<>>
    ELSE (IF Survives(Head(files))
          THEN TagFrame(Head(files), to_datetime(extract_date_from_filename(Head(files).path))).rows
          ELSE <<>>)
         \o SurvivorRows(Tail(files))

Succeeded == pc \in {"fk_return", "done"} /\ fk_result # <<>> /\ fk_result[1] # None

-----------------------------------------------------------------------------
(* Properties *)

\* C1: whatever stage run_forecast_pipeline stops at, it returns a triple in
\* which exactly one of chart_payload and error_message is not None and
\* summary_text is not None exactly when chart_payload is not None; every
\* exception raised on the way has become such a triple.
C1_ResultContract ==
    pc = "done" =>
        /\ Len(result) = 3
        /\ (result[1] # None) # (result[3] # None)
        /\ (result[2] # None) <=> (result[1] # None)

\* the forecast succeeded and the serialisation of its chart raised
C1_Witness ==
    /\ pc = "done"
    /\ fk_result # <<>>
    /\ fk_result[1] # None
    /\ result[1] = None
    /\ result[3] # None

\* C2: a successful forecast with horizon N > 0 has N points, the
\* first dated the month after the last historical series date, each later one
\* the month after the one before.
C2_StartsAfterLastHistoricalDate ==
    (Succeeded /\ request.forecast_months > 0) =>
        /\ Len(forecasts) = request.forecast_months
        /\ MonthAfter(Series[Len(Series)].ds, forecasts[1].ds)
        /\ \A k \in 2..Len(forecasts) : MonthAfter(forecasts[k - 1].ds, forecasts[k].ds)

\* C4: in the per-file loop a failing or dateless file never stops the files
\* after it; the unified dataset holds exactly the rows of the surviving files,
\* tagged with each file's date and base name; 'No valid data found in Excel
\* files' is returned exactly when no file survives.
C4_PerFileLoop ==
    /\ pc = "loop" =>
          ConcatRows(records) = SurvivorRows(SubSeq(excel_files, 1, idx - 1))
    /\ (pc \notin {"start", "walk", "loop"} /\ excel_files # <<>>) =>
          idx = Len(excel_files) + 1
    /\ pc = "fk_prepare" =>
          /\ ConcatRows(records) = SurvivorRows(excel_files)
          /\ df_all.rows = SurvivorRows(excel_files)
    /\ (pc = "done" /\ excel_files # <<>>) =>
          ((result = <<None, None, NoValidMsg>>)
             <=> (\A i \in DOMAIN excel_files : ~Survives(excel_files[i])))

\* an undecodable file and a dateless file were passed over, files after them
\* were still read, and the dataset was built
C4_Witness ==
    /\ pc = "fk_prepare"
    /\ \E i, j, k \in DOMAIN excel_files :
          /\ i < k /\ j < k
          /\ ~excel_files[i].decodes
          /\ excel_files[j].decodes /\ extract_date_from_filename(excel_files[j].path) = <<>>
          /\ Survives(excel_files[k])
    /\ Len(df_all.rows) >= 2

\* C5 (as stated): for a series of length L the trainable rows are exactly the
\* series entries from the 4th onward, max(0, L-3) of them, each with lag1,
\* lag2, lag3 equal to the series values 1, 2 and 3 positions earlier.
C5_RowsFromFourthOnward ==
    pc \in {"fk_fit", "fk_loop"} =>
        LET S == Series
        IN  /\ Len(ts) = IF Len(S) > 3 THEN Len(S) - 3 ELSE 0
            /\ \A r \in DOMAIN ts :
                  /\ ts[r].ds = S[r + 3].ds
                  /\ ts[r].y = S[r + 3].y
                  /\ ts[r].y_lag_1 = S[r + 2].y
                  /\ ts[r].y_lag_2 = S[r + 1].y
                  /\ ts[r].y_lag_3 = S[r].y

\* C5 (amended): the trainable rows are exactly the series entries from the 4th
\* onward whose own value and three preceding values are all present, in series
\* order, each with lag1, lag2, lag3 equal to the series values 1, 2 and 3
\* positions earlier; for a series without a missing value these are the
\* max(0, L-3) entries from the 4th onward.
C5_RowsWithThreePresentLags ==
    pc \in {"fk_fit", "fk_loop"} =>
        LET S == Series
            full == {i \in DOMAIN S : Complete(S, i)}
            At(r) == CHOOSE i \in full : Cardinality({j \in full : j < i}) = r - 1
        IN  /\ Len(ts) = Cardinality(full)
            /\ AllPresent(S) => Len(ts) = (IF Len(S) > 3 THEN Len(S) - 3 ELSE 0)
            /\ \A r \in DOMAIN ts :
                  /\ ts[r].ds = S[At(r)].ds
                  /\ ts[r].y = S[At(r)].y
                  /\ ts[r].y_lag_1 = S[At(r) - 1].y
                  /\ ts[r].y_lag_2 = S[At(r) - 2].y
                  /\ ts[r].y_lag_3 = S[At(r) - 3].y
                  /\ ts[r].month = S[At(r)].ds.month
                  /\ ts[r].year = S[At(r)].ds.year

\* a series of six dates, the last without a value, leaves two trainable rows
C5_Witness ==
    /\ pc = "fk_fit"
    /\ Len(Series) = 6
    /\ ~AllPresent(Series)
    /\ Len(ts) = 2

\* C6: when the matching rows cover 3 or fewer distinct dates the pipeline
\* returns an error message, no chart and no summary; no forecast is ever
\* returned from an empty training set.
C6_InsufficientHistory ==
    /\ (pc = "done" /\ df_all # None /\ Cardinality({Matching[i].Date : i \in DOMAIN Matching}) <= 3) =>
          /\ result[1] = None
          /\ result[2] = None
          /\ result[3] # None
    /\ Succeeded => ts # <<>>

\* three matching dates, all with values: fit returned on the empty training
\* set and the pipeline ended with the error of ts.iloc[-1]
C6_Witness ==
    /\ pc = "done"
    /\ df_all # None
    /\ Len(Series) = 3
    /\ AllPresent(Series)
    /\ model # None
    /\ result = ForecastExcept("IndexError")

\* C7: when rows match the tuple and the value column is missing in all of
\* them (from the whole schema, or present only through other files' rows) the
\* pipeline returns the MissingColumn error naming the column and no chart;
\* when no row matches it returns 'No data available for the selected inputs'.
C7_MissingColumnNamed ==
    (pc = "done" /\ df_all # None) =>
        LET lacking == {Basename(excel_files[i].path) : i \in
                           {j \in DOMAIN excel_files : Strip(excel_files[j].header) # value_col}}
        IN  /\ Matching = <<>> => result = <<None, None, NoDataMsg>>
            /\ (Matching # <<>> /\ \A i \in DOMAIN Matching : Matching[i].source_file \in lacking)
                  => result = <<None, None, MissingColumnMsg>>

\* C8: the lag triple of the first predicted point is (value at the last
\* historical date, value at the second-to-last, value at the third-to-last).
C8_SeedIsThreeMostRecent ==
    calls # <<>> =>
        LET S == Series
        IN  /\ calls[1].y_lag_1 = S[Len(S)].y
            /\ calls[1].y_lag_2 = S[Len(S) - 1].y
            /\ calls[1].y_lag_3 = S[Len(S) - 2].y

\* C9: for every step k >= 2 of the prediction loop the lag triple is
\* (prediction of step k-1, lag1 of step k-1, lag2 of step k-1); the carried
\* triple always has three entries; the steps go through consecutive months in
\* ascending order.
C9_LagShift ==
    /\ pc = "fk_loop" => Len(prev_lags) = 3
    /\ Len(forecasts) <= Len(calls)
    /\ \A k \in 2..Len(calls) :
          /\ calls[k].y_lag_1 = forecasts[k - 1].yhat
          /\ calls[k].y_lag_2 = calls[k - 1].y_lag_1
          /\ calls[k].y_lag_3 = calls[k - 1].y_lag_2
          /\ MonthAfter([year |-> calls[k - 1].year, month |-> calls[k - 1].month],
                        [year |-> calls[k].year, month |-> calls[k].month])
    /\ \A k \in DOMAIN forecasts :
          forecasts[k].ds = [year |-> calls[k].year, month |-> calls[k].month]
    /\ (pc = "fk_loop" /\ forecasts # <<>>) =>
          prev_lags = <<forecasts[Len(forecasts)].yhat,
                        calls[Len(forecasts)].y_lag_1, calls[Len(forecasts)].y_lag_2>>

\* three steps were taken, with two different predictions fed back
C9_Witness ==
    /\ Len(calls) >= 3
    /\ Len(forecasts) >= 3
    /\ forecasts[1].yhat # forecasts[2].yhat
    /\ calls[3].y_lag_1 # calls[3].y_lag_2

\* C10: on success the 'Actual' trace is the whole historical series, one point
\* per distinct matching date in ascending order with that date's mean, the
\* three earliest dates included; the 'Forecast' trace holds the N forecast
\* points.
C10_ActualIsWholeSeries ==
    (pc = "done" /\ result[1] # None) =>
        LET S == Series
        IN  /\ result[1].data[1].name = "Actual"
            /\ result[1].data[1].points = [i \in DOMAIN S |-> [x |-> IsoDate(S[i].ds), y |-> S[i].y]]
            /\ result[1].data[2].name = "Forecast"
            /\ Len(result[1].data[2].points) = request.forecast_months

\* C3: extract_date_from_filename returns 'YYYY-MM-01' for the first substring
\* of the stem that is a month abbreviation (any case) followed by four
\* digits, and None exactly when the stem has no such substring.
C3_FirstMonthYearSubstring ==
    pc = "returned" =>
        LET base == SplitExtBase(Basename(filename))
            IsMonthYear(i) == /\ RegexMatchesAt(base, i)
                              /\ Capitalize(SubSeq(base, i, i + 2)) \in Range(month_abbr)
            hits == {i \in DOMAIN base : IsMonthYear(i)}
            first == CHOOSE i \in hits : \A j \in hits : i <= j
            mm == TwoDigits(CHOOSE m \in DOMAIN month_abbr :
                               month_abbr[m] = Capitalize(SubSeq(base, first, first + 2)))
        IN  IF hits = {} THEN date_str = <<>>
            ELSE date_str = SubSeq(base, first + 3, first + 6) \o <<"-">> \o mm \o <<"-", "0", "1">>

====
